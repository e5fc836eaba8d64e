--------------------------- MODULE MCModelRuntime ---------------------------
(***************************************************************************)
(* Instances of ModelRuntime. In neither plan do two actors create engines  *)
(* of one runtime, so one engine object of each is enough.                  *)
(***************************************************************************)
EXTENDS ModelRuntime

Dictating == {<<"stt", "use">>, <<"stt", "route">>, <<"llm", "bare">>}
Speaking == {<<"tts", "use">>, <<"llm", "bare">>, <<"llm", "pin">>}
TwoPlans == {Dictating, Speaking}
OneEach == [n \in Names |-> 1]

=============================================================================
