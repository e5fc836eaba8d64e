------------------------- MODULE MCControllerInput -------------------------
(***************************************************************************)
(* Instances of ControllerInput: two button tables that a profile switch    *)
(* exchanges, one with a chord and one with a sequence.                     *)
(***************************************************************************)
EXTENDS ControllerInput

CONSTANTS pad, b1, b2, b3, p1, p2

Bind(action, style, events, hold) ==
  [action |-> action, style |-> style, events |-> events, hold |-> hold, scope |-> "any"]
Desk == << Bind("begin", "single", <<b1>>, TRUE), Bind("read", "chord", <<b1, b2>>, FALSE) >>
Game == << Bind("begin", "chord", <<b1, b2>>, TRUE), Bind("stop", "single", <<b2>>, FALSE) >>
Combo == << Bind("begin", "sequence", <<b1, b2>>, TRUE), Bind("toggle", "single", <<b1>>, FALSE) >>
Nested == << Bind("begin", "single", <<b1>>, TRUE), Bind("read", "chord", <<b1, b2>>, FALSE),
             Bind("toggle", "chord", <<b1, b2, b3>>, FALSE), Bind("stop", "single", <<b3>>, FALSE) >>

Switching == [pads |-> {p1}, tables |-> {Desk, Game, Combo}, others |-> {"keyboard", "shutdown"}]
Bouncing  == [pads |-> {p1}, tables |-> {Desk, Game}, others |-> {"bounces"}]
Nesting   == [pads |-> {p1}, tables |-> {Nested}, others |-> {"bounces"}]
Two       == [pads |-> {p1, p2}, tables |-> {Desk, Game}, others |-> {"keyboard"}]
Capturing == [pads |-> {p1}, tables |-> {Desk, Game}, others |-> {"wizard", "keyboard"}]
Beside    == [pads |-> {p1}, tables |-> {Combo}, others |-> {"deck", "keyboard"}]
SixPlans == {Switching, Bouncing, Nesting, Two, Capturing, Beside}
OneName == [p \in Pads |-> pad]
=============================================================================
