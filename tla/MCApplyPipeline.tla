-------------------------- MODULE MCApplyPipeline --------------------------
(***************************************************************************)
(* ApplyPipeline for TLC: three client callbacks, terms up to 4 and a log  *)
(* of at most 4 entries, so that a leader's entries are overwritten by a   *)
(* later leader's and a conf change is pending across a change of leader. *)
(***************************************************************************)
EXTENDS ApplyPipeline

CONSTANTS c1, c2, c3

MCCallbacks == {c1, c2, c3}

MCCallbacks2 == {c1, c2}

MCSymmetry == Permutations(MCCallbacks)
================================================================================
