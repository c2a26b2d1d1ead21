---------------------------- MODULE MCFrameStats ----------------------------
(***************************************************************************)
(* A small ring for TLC: its samples have different durations and steps, so *)
(* that a sum or a latest sample taken from the wrong ones differs.         *)
(***************************************************************************)
EXTENDS FrameStats

MCSample == {[seconds |-> 1, simulation_steps |-> 0], [seconds |-> 2, simulation_steps |-> 1],
             [seconds |-> 5, simulation_steps |-> 2]}
=============================================================================
