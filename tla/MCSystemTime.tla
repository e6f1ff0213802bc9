---------------------------- MODULE MCSystemTime ----------------------------
(***************************************************************************)
(* Values for model-checking SystemTime: a time of day whose microseconds  *)
(* are less than those since the last tick of a second, and zero.          *)
(***************************************************************************)
EXTENDS SystemTime

MCTimes == {<<0, 0>>, <<1, 1>>}
=============================================================================
