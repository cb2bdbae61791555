----------------------------- MODULE MCMinimizer -----------------------------
(* An instance of Minimizer for TLC: a step is traced in a line of two bytes *)
(* or of three; traces that fit, that fill the buffer, that end under the    *)
(* margin, that Fill cuts, and two that differ behind the last hashed step.  *)
EXTENDS Minimizer

MCSteps    == {"a", "s"}
MCLineSize == [s \in MCSteps |-> IF s = "a" THEN 2 ELSE 3]
MCTraces   == {<<"a", "a">>, <<"a", "a", "a">>, <<"a", "s">>,
               <<"s", "s", "a">>, <<"s", "s", "s">>}
=============================================================================
